---- MODULE Spec2Model ----
(***************************************************************************)
(* Model of the notebook SeismicDataProcessing.ipynb in three segments:    *)
(* the cells "Remove instrument response" and "Saving seismograms to file" *)
(* (Spec), the cells "Day plots" and "Handling gaps" (SpecGaps), and the   *)
(* metadata cells (SpecInv).                                               *)
(*                                                                         *)
(* The notebook is a straight-line program run by one kernel.  Its state   *)
(* is the kernel's name bindings (st, trace, trace_sensi, pre_filt,        *)
(* trace_filter, starttime, duration), the Trace objects those names       *)
(* refer to, and the calls the notebook has made into the seismology       *)
(* library, each with the object it was made on and the keyword arguments  *)
(* the notebook wrote at the call site.  Every statement of a cell is one  *)
(* action.                                                                 *)
(*                                                                         *)
(* The library's numerical work (deconvolution, filtering, the MiniSEED    *)
(* codec, plotting) is outside the notebook: a processing call is recorded *)
(* on the object it was made on (field "processing") and in the call log,  *)
(* a plot call in the call log only, and nothing is assumed about the      *)
(* sample values a call produces.                                          *)
(*                                                                         *)
(* Every name a segment reads is bound by the segment before the read, so  *)
(* the bindings left by earlier cells are dead on entry and start unbound. *)
(*                                                                         *)
(* Frequencies are in tenths of a hertz (0.5 Hz is 5), times in seconds    *)
(* of the day 2015-01-22.                                                  *)
(***************************************************************************)
EXTENDS Integers, Sequences, FiniteSets

\* ------------------------------------------------------------------ bounds

\* Most traces one get_waveforms reply holds (the channel pattern 'E*Z' and
\* gaps in the archive both give more than one).
MaxTraces == 2

\* Most samples a returned trace holds (sample counts are scaled down).
MaxNpts == 2

\* ------------------------------------------------------- notebook constants

\* starttime = UTCDateTime("2015-01-22T10:34:00"), in seconds of the day.
StartTime_RR == 38040

\* duration = 60
Duration_RR == 60

\* pre_filt = [0.5, 1, 50, 70], in tenths of a hertz.
PreFiltCorners == <<5, 10, 500, 700>>

\* Channel codes of station AXAS1 that the pattern 'E*Z' matches.
Channels == {"EHZ", "ELZ"}

\* An unbound name that would hold a Trace.
NoRef == 0

\* An unbound name that would hold a list.
Unbound == <<>>

\* A call written with no keyword arguments.
NoKwargs == <<>>

VARIABLES
    pc,           \* the statement the kernel runs next
    starttime,    \* notebook name starttime (NoRef: unbound)
    duration,     \* notebook name duration (NoRef: unbound)
    st,           \* notebook name st: a Stream, the list of its Trace objects
    trace,        \* notebook name trace: a Trace object
    trace_sensi,  \* notebook name trace_sensi: a Trace object
    pre_filt,     \* notebook name pre_filt: a list of corner frequencies
    trace_filter, \* notebook name trace_filter: a Trace object
    heap,         \* the Trace objects, by object id
    calls,        \* the library calls made so far, in order
    st_filled_gaps,   \* notebook name st_filled_gaps: a Stream
    endtime,          \* notebook name endtime (NoRef: unbound)
    inventory,        \* notebook name inventory: an Inventory
    inventory_select  \* notebook name inventory_select: an Inventory

\* The names only the gap-handling cell binds.
gapVars == <<st_filled_gaps>>

\* The names only the metadata cells bind.
invVars == <<endtime, inventory, inventory_select>>

vars == <<pc, starttime, duration, st, trace, trace_sensi, pre_filt,
          trace_filter, heap, calls, st_filled_gaps, endtime, inventory,
          inventory_select>>

\* ------------------------------------------------------------ the library

\* A Trace the service can return for a query: identity, timing, the sample
\* count, whether the response is attached, and the processing calls made on
\* the object since it was retrieved.
ArchiveTrace(start, attach) ==
    { [network |-> "OO", station |-> "AXAS1", channel |-> c,
       starttime |-> start, npts |-> n, response |-> attach,
       processing |-> <<>>] : c \in Channels, n \in 1..MaxNpts }

\* The replies get_waveforms can give: one to MaxTraces traces.
ArchiveReply(start, attach) ==
    UNION { [1..k -> ArchiveTrace(start, attach)] : k \in 1..MaxTraces }

\* The keyword arguments of both get_waveforms calls of the segment.
GetWaveformsKwargs ==
    [network |-> "OO", station |-> "AXAS1", location |-> "*",
     channel |-> "E*Z", starttime |-> starttime,
     endtime |-> starttime + duration, attach_response |-> TRUE]

\* The ids of the objects a reply of k traces is stored under.
NewRefs(k) == [i \in 1..k |-> Len(heap) + i]

\* A call into the library: the function, the objects it was made on, and
\* the keyword arguments written at the call site.
Call(fn, target, kwargs) == [fn |-> fn, target |-> target, kwargs |-> kwargs]

\* A processing method mutates the Trace it is called on.
Processed(ref, fn) ==
    [heap EXCEPT ![ref].processing = Append(@, fn)]

\* ------------------------------------------ cell "Remove instrument response"

\* starttime = UTCDateTime("2015-01-22T10:34:00"); duration = 60
RR_params ==
    /\ pc = "rr_params"
    /\ starttime' = StartTime_RR
    /\ duration' = Duration_RR
    /\ pc' = "rr_get_waveforms"
    /\ UNCHANGED <<st, trace, trace_sensi, pre_filt, trace_filter, heap, calls>>
    /\ UNCHANGED <<gapVars, invVars>>

\* st = client.get_waveforms(..., attach_response=True): the reply binds st;
\* an exception of the client aborts the cell and the run.
RR_get_waveforms ==
    /\ pc = "rr_get_waveforms"
    /\ calls' = Append(calls, Call("get_waveforms", <<>>, GetWaveformsKwargs))
    /\ \/ \E reply \in ArchiveReply(starttime, TRUE) :
            /\ st' = NewRefs(Len(reply))
            /\ heap' = heap \o reply
            /\ pc' = "rr_trace"
       \/ /\ pc' = "aborted"
          /\ UNCHANGED <<st, heap>>
    /\ UNCHANGED <<starttime, duration, trace, trace_sensi, pre_filt,
                   trace_filter>>
    /\ UNCHANGED <<gapVars, invVars>>

\* trace = st[0]
RR_trace ==
    /\ pc = "rr_trace"
    /\ trace' = st[1]
    /\ pc' = "rr_copy_sensi"
    /\ UNCHANGED <<starttime, duration, st, trace_sensi, pre_filt,
                   trace_filter, heap, calls>>
    /\ UNCHANGED <<gapVars, invVars>>

\* trace_sensi = trace.copy()
RR_copy_sensi ==
    /\ pc = "rr_copy_sensi"
    /\ heap' = Append(heap, heap[trace])
    /\ trace_sensi' = Len(heap) + 1
    /\ pc' = "rr_remove_sensitivity"
    /\ UNCHANGED <<starttime, duration, st, trace, pre_filt, trace_filter,
                   calls>>
    /\ UNCHANGED <<gapVars, invVars>>

\* trace_sensi.remove_sensitivity()
RR_remove_sensitivity ==
    /\ pc = "rr_remove_sensitivity"
    /\ heap' = Processed(trace_sensi, "remove_sensitivity")
    /\ calls' = Append(calls, Call("remove_sensitivity", <<trace_sensi>>,
                                   NoKwargs))
    /\ pc' = "rr_plots"
    /\ UNCHANGED <<starttime, duration, st, trace, trace_sensi, pre_filt,
                   trace_filter>>
    /\ UNCHANGED <<gapVars, invVars>>

\* trace.plot(); trace_sensi.plot()
RR_plots ==
    /\ pc = "rr_plots"
    /\ calls' = calls \o <<Call("plot", <<trace>>, NoKwargs),
                           Call("plot", <<trace_sensi>>, NoKwargs)>>
    /\ pc' = "rr_pre_filt"
    /\ UNCHANGED <<starttime, duration, st, trace, trace_sensi, pre_filt,
                   trace_filter, heap>>
    /\ UNCHANGED <<gapVars, invVars>>

\* pre_filt = [0.5, 1, 50, 70]
RR_pre_filt ==
    /\ pc = "rr_pre_filt"
    /\ pre_filt' = PreFiltCorners
    /\ pc' = "rr_remove_response"
    /\ UNCHANGED <<starttime, duration, st, trace, trace_sensi, trace_filter,
                   heap, calls>>
    /\ UNCHANGED <<gapVars, invVars>>

\* The keyword arguments of trace.remove_response(...) as the cell writes
\* them: output, plot and water_level.
RemoveResponseKwargs ==
    [output |-> "DISP", plot |-> TRUE, water_level |-> 0]

\* trace.remove_response(output="DISP", plot=True, water_level=0)
RR_remove_response ==
    /\ pc = "rr_remove_response"
    /\ heap' = Processed(trace, "remove_response")
    /\ calls' = Append(calls, Call("remove_response", <<trace>>,
                                   RemoveResponseKwargs))
    /\ pc' = "rr_copy_filter"
    /\ UNCHANGED <<starttime, duration, st, trace, trace_sensi, pre_filt,
                   trace_filter>>
    /\ UNCHANGED <<gapVars, invVars>>

\* trace_filter = trace.copy()
RR_copy_filter ==
    /\ pc = "rr_copy_filter"
    /\ heap' = Append(heap, heap[trace])
    /\ trace_filter' = Len(heap) + 1
    /\ pc' = "rr_filter"
    /\ UNCHANGED <<starttime, duration, st, trace, trace_sensi, pre_filt,
                   calls>>
    /\ UNCHANGED <<gapVars, invVars>>

\* The keyword arguments of trace_filter.filter('bandpass', ...).
FilterKwargs == [type |-> "bandpass", freqmin |-> 50, freqmax |-> 500,
                 corners |-> 3]

\* trace_filter.filter('bandpass', freqmin=5.0, freqmax=50, corners=3)
RR_filter ==
    /\ pc = "rr_filter"
    /\ heap' = Processed(trace_filter, "filter")
    /\ calls' = Append(calls, Call("filter", <<trace_filter>>, FilterKwargs))
    /\ pc' = "rr_plot_filter"
    /\ UNCHANGED <<starttime, duration, st, trace, trace_sensi, pre_filt,
                   trace_filter>>
    /\ UNCHANGED <<gapVars, invVars>>

\* trace_filter.plot()
RR_plot_filter ==
    /\ pc = "rr_plot_filter"
    /\ calls' = Append(calls, Call("plot", <<trace_filter>>, NoKwargs))
    /\ pc' = "save_get_waveforms"
    /\ UNCHANGED <<starttime, duration, st, trace, trace_sensi, pre_filt,
                   trace_filter, heap>>
    /\ UNCHANGED <<gapVars, invVars>>

\* ------------------------------------------ cell "Saving seismograms to file"

\* The cell without its first statement: st.write would be handed the st of
\* the response-removal cell.
Save_get_waveforms_stale ==
    /\ pc = "save_get_waveforms"
    /\ pc' = "save_write"
    /\ UNCHANGED <<starttime, duration, st, trace, trace_sensi, pre_filt,
                   trace_filter, heap, calls>>
    /\ UNCHANGED <<gapVars, invVars>>

\* st = client.get_waveforms(..., attach_response=True)
Save_get_waveforms ==
    /\ pc = "save_get_waveforms"
    /\ calls' = Append(calls, Call("get_waveforms", <<>>, GetWaveformsKwargs))
    /\ \/ \E reply \in ArchiveReply(starttime, TRUE) :
            /\ st' = NewRefs(Len(reply))
            /\ heap' = heap \o reply
            /\ pc' = "save_write"
       \/ /\ pc' = "aborted"
          /\ UNCHANGED <<st, heap>>
    /\ UNCHANGED <<starttime, duration, trace, trace_sensi, pre_filt,
                   trace_filter>>
    /\ UNCHANGED <<gapVars, invVars>>

\* st.write('mytrace.mseed', format='MSEED')
Save_write ==
    /\ pc = "save_write"
    /\ calls' = Append(calls, Call("write", st,
                                   [filename |-> "mytrace.mseed",
                                    format |-> "MSEED"]))
    /\ pc' = "done"
    /\ UNCHANGED <<starttime, duration, st, trace, trace_sensi, pre_filt,
                   trace_filter, heap>>
    /\ UNCHANGED <<gapVars, invVars>>

\* ------------------------------------------------------- cell "Day plots"

\* starttime = UTCDateTime("2015-01-22T00:00:00"), in seconds of the day.
StartTime_DP == 0

\* endtime=starttime+86400
DayLength == 86400

\* st_filled_gaps[0].stats.sampling_rate=200
MergeRate == 200

\* The sampling rates a returned trace can carry: the rate the notebook sets
\* to allow merging, and one that differs from it.
SamplingRates == {MergeRate - 1, MergeRate}

\* A Trace of station AXAS2 the service can return for the day.
DayTrace(start) ==
    { [network |-> "OO", station |-> "AXAS2", channel |-> c,
       starttime |-> start, npts |-> n, sampling_rate |-> r,
       response |-> FALSE, processing |-> <<>>] :
         c \in Channels, n \in 1..MaxNpts, r \in SamplingRates }

\* The replies get_waveforms can give for the day: one to MaxTraces traces,
\* several of one channel when the archive has gaps.
DayReply(start) ==
    UNION { [1..k -> DayTrace(start)] : k \in 1..MaxTraces }

\* The keyword arguments of the day's get_waveforms call.
DayWaveformsKwargs ==
    [network |-> "OO", station |-> "AXAS2", location |-> "*",
     channel |-> "E*Z", starttime |-> starttime,
     endtime |-> starttime + DayLength]

\* The keyword arguments of both dayplot calls.
DayPlotKwargs == [type |-> "dayplot", interval |-> 60]

\* starttime = UTCDateTime("2015-01-22T00:00:00")
DP_params ==
    /\ pc = "dp_params"
    /\ starttime' = StartTime_DP
    /\ pc' = "dp_get_waveforms"
    /\ UNCHANGED <<duration, st, trace, trace_sensi, pre_filt, trace_filter,
                   heap, calls, gapVars, invVars>>

\* st = client.get_waveforms(station='AXAS2', ..., endtime=starttime+86400)
DP_get_waveforms ==
    /\ pc = "dp_get_waveforms"
    /\ calls' = Append(calls, Call("get_waveforms", <<>>, DayWaveformsKwargs))
    /\ \/ \E reply \in DayReply(starttime) :
            /\ st' = NewRefs(Len(reply))
            /\ heap' = heap \o reply
            /\ pc' = "dp_trace"
       \/ /\ pc' = "aborted"
          /\ UNCHANGED <<st, heap>>
    /\ UNCHANGED <<starttime, duration, trace, trace_sensi, pre_filt,
                   trace_filter, gapVars, invVars>>

\* trace=st[0]
DP_trace ==
    /\ pc = "dp_trace"
    /\ trace' = st[1]
    /\ pc' = "dp_plot"
    /\ UNCHANGED <<starttime, duration, st, trace_sensi, pre_filt,
                   trace_filter, heap, calls, gapVars, invVars>>

\* trace.plot(type='dayplot', color=[...], interval=60)
DP_plot ==
    /\ pc = "dp_plot"
    /\ calls' = Append(calls, Call("plot", <<trace>>, DayPlotKwargs))
    /\ pc' = "hg_reset"
    /\ UNCHANGED <<starttime, duration, st, trace, trace_sensi, pre_filt,
                   trace_filter, heap, gapVars, invVars>>

\* --------------------------------------------------- cell "Handling gaps"

\* st_filled_gaps=None
HG_reset ==
    /\ pc = "hg_reset"
    /\ st_filled_gaps' = Unbound
    /\ pc' = "hg_deepcopy"
    /\ UNCHANGED <<starttime, duration, st, trace, trace_sensi, pre_filt,
                   trace_filter, heap, calls, invVars>>

\* The statement with a plain assignment in place of the deep copy:
\* st_filled_gaps is the Stream st itself.
HG_deepcopy_alias ==
    /\ pc = "hg_deepcopy"
    /\ st_filled_gaps' = st
    /\ pc' = "hg_sampling_rate"
    /\ UNCHANGED <<starttime, duration, st, trace, trace_sensi, pre_filt,
                   trace_filter, heap, calls, invVars>>

\* st_filled_gaps=copy.deepcopy(st): a new Stream of new Trace objects, each
\* equal to the Trace of st at the same place.
HG_deepcopy ==
    /\ pc = "hg_deepcopy"
    /\ heap' = heap \o [i \in 1..Len(st) |-> heap[st[i]]]
    /\ st_filled_gaps' = NewRefs(Len(st))
    /\ pc' = "hg_sampling_rate"
    /\ UNCHANGED <<starttime, duration, st, trace, trace_sensi, pre_filt,
                   trace_filter, calls, invVars>>

\* st_filled_gaps[0].stats.sampling_rate=200  # allow merging
HG_sampling_rate ==
    /\ pc = "hg_sampling_rate"
    /\ heap' = [heap EXCEPT ![st_filled_gaps[1]].sampling_rate = MergeRate]
    /\ pc' = "hg_merge"
    /\ UNCHANGED <<starttime, duration, st, trace, trace_sensi, pre_filt,
                   trace_filter, calls, gapVars, invVars>>

\* Most fill samples one merge puts between the parts of a trace (a bound on
\* the length of the archive's gaps).
MaxGapFill == 1

\* The keyword arguments of st_filled_gaps.merge(...).
MergeKwargs == [method |-> 0, fill_value |-> 0]

\* The ids of the traces of a stream (network and station are those of the
\* query, so the channel code tells the ids apart).
IdsOf(stream) == { heap[stream[i]].channel : i \in 1..Len(stream) }

\* The places of a stream that hold a trace of the given id.
PartsOf(stream, id) ==
    { i \in 1..Len(stream) : heap[stream[i]].channel = id }

\* The first place of a stream that holds a trace of the given id.
FirstPart(stream, id) ==
    CHOOSE i \in PartsOf(stream, id) : \A j \in PartsOf(stream, id) : i <= j

\* The samples of the traces of the given id, added up over the first n
\* places of the stream.
RECURSIVE SumNpts(_, _, _)
SumNpts(stream, id, n) ==
    IF n = 0 THEN 0
    ELSE SumNpts(stream, id, n - 1)
         + (IF n \in PartsOf(stream, id) THEN heap[stream[n]].npts ELSE 0)

\* Merging is allowed when the traces of one id agree on the sampling rate
\* (the notebook sets the rate of trace 0 "to allow merging").
Mergeable(stream) ==
    \A i, j \in 1..Len(stream) :
        heap[stream[i]].channel = heap[stream[j]].channel
            => heap[stream[i]].sampling_rate = heap[stream[j]].sampling_rate

\* The trace that takes the place of the traces of one id: their samples and
\* fill fill-value samples for the gaps between them.
MergedTrace(stream, id, fill) ==
    [heap[stream[FirstPart(stream, id)]]
        EXCEPT !.npts = SumNpts(stream, id, Len(stream))
                        + (IF Cardinality(PartsOf(stream, id)) > 1
                           THEN fill ELSE 0)]

\* The orders the merged traces can be left in.
MergeOrders(stream) ==
    { f \in [1..Cardinality(IdsOf(stream)) -> IdsOf(stream)] :
        \A a, b \in DOMAIN f : f[a] = f[b] => a = b }

\* st_filled_gaps.merge(method=0, fill_value=0): in place, one trace per id;
\* traces of one id with differing sampling rates make the call raise.
HG_merge ==
    /\ pc = "hg_merge"
    /\ calls' = Append(calls, Call("merge", st_filled_gaps, MergeKwargs))
    /\ \/ /\ Mergeable(st_filled_gaps)
          /\ \E order \in MergeOrders(st_filled_gaps), fill \in 0..MaxGapFill :
                /\ heap' = heap \o [i \in DOMAIN order |->
                                      MergedTrace(st_filled_gaps, order[i], fill)]
                /\ st_filled_gaps' = NewRefs(Len(order))
          /\ pc' = "hg_trace"
       \/ /\ ~Mergeable(st_filled_gaps)
          /\ pc' = "aborted"
          /\ UNCHANGED <<heap, st_filled_gaps>>
    /\ UNCHANGED <<starttime, duration, st, trace, trace_sensi, pre_filt,
                   trace_filter, invVars>>

\* trace=st_filled_gaps[0]
HG_trace ==
    /\ pc = "hg_trace"
    /\ trace' = st_filled_gaps[1]
    /\ pc' = "hg_plot"
    /\ UNCHANGED <<starttime, duration, st, trace_sensi, pre_filt,
                   trace_filter, heap, calls, gapVars, invVars>>

\* trace.plot(type='dayplot', color=[...], interval=60)
HG_plot ==
    /\ pc = "hg_plot"
    /\ calls' = Append(calls, Call("plot", <<trace>>, DayPlotKwargs))
    /\ pc' = "hg_done"
    /\ UNCHANGED <<starttime, duration, st, trace, trace_sensi, pre_filt,
                   trace_filter, heap, gapVars, invVars>>

\* ---------------------------------------------------- the metadata cells

\* starttime = UTCDateTime("2015-01-01"), as the day of January 2015.
StartTime_Inv == 1

\* endtime = UTCDateTime("2015-01-02"), as the day of January 2015.
EndTime_Inv == 2

\* Stations the service lists for the networks NV and OO (three of the
\* eighteen of the recorded output).
CatalogStations ==
    { [network |-> "NV", station |-> "KEMF"],
      [network |-> "OO", station |-> "AXAS1"],
      [network |-> "OO", station |-> "AXAS2"] }

\* Channel codes a station can have, letter by letter: the EHZ the notebook
\* asks for by name, and two that the pattern '*Z' sets apart.
ChannelCodes ==
    { <<"E", "H", "Z">>, <<"E", "H", "N">>, <<"H", "N", "Z">> }

\* What the service holds for the window: the channel codes of each station
\* (none: the station did not record in the window).
Catalogs == [CatalogStations -> SUBSET ChannelCodes]

\* Wildcard matching of a code against a pattern, '*' standing for any
\* letters.
RECURSIVE Glob(_, _)
Glob(pattern, code) ==
    IF pattern = <<>> THEN code = <<>>
    ELSE IF Head(pattern) = "*"
         THEN \/ Glob(Tail(pattern), code)
              \/ code # <<>> /\ Glob(pattern, Tail(code))
         ELSE /\ code # <<>>
              /\ Head(pattern) = Head(code)
              /\ Glob(Tail(pattern), Tail(code))

\* The Inventory get_stations returns: the stations of the asked networks
\* and station codes that have a channel matching the pattern; at level
\* "station" with no channels listed (recorded output: Channels (0)), at
\* level "channel" with the matching channels, at level "response" with
\* their responses too.
GetStations(catalog, networks, stations, pattern, level) ==
    { [network |-> s.network, station |-> s.station,
       channels |-> IF level = "station" THEN {}
                    ELSE { [code |-> c, response |-> level = "response"] :
                             c \in { d \in catalog[s] : Glob(pattern, d) } }] :
        s \in { t \in CatalogStations :
                  /\ t.network \in networks
                  /\ t.station \in stations
                  /\ \E d \in catalog[t] : Glob(pattern, d) } }

\* inventory.select(channel=..., station=...): a new Inventory of the
\* stations of that code, each with its channels that match the pattern.
Select(inv, pattern, station) ==
    { [s EXCEPT !.channels = { c \in @ : Glob(pattern, c.code) }] :
        s \in { t \in inv : t.station = station } }

\* Every station code of the catalog (a query without a station argument).
AllStationCodes == { s.station : s \in CatalogStations }

\* starttime = UTCDateTime("2015-01-01"); endtime = UTCDateTime("2015-01-02")
INV_params ==
    /\ pc = "inv_params"
    /\ starttime' = StartTime_Inv
    /\ endtime' = EndTime_Inv
    /\ pc' = "inv_get_stations"
    /\ UNCHANGED <<duration, st, trace, trace_sensi, pre_filt, trace_filter,
                   heap, calls, gapVars, inventory, inventory_select>>

\* inventory = client.get_stations(network=net_code, starttime=starttime,
\* endtime=endtime): no level argument, station detail.
INV_get_stations ==
    /\ pc = "inv_get_stations"
    /\ calls' = Append(calls, Call("get_stations", <<>>,
                    [network |-> "NV,OO", starttime |-> starttime,
                     endtime |-> endtime]))
    /\ \/ \E catalog \in Catalogs :
            /\ inventory' = GetStations(catalog, {"NV", "OO"},
                                        AllStationCodes, <<"*">>, "station")
            /\ pc' = "inv_plot"
       \/ /\ pc' = "aborted"
          /\ UNCHANGED inventory
    /\ UNCHANGED <<starttime, duration, st, trace, trace_sensi, pre_filt,
                   trace_filter, heap, gapVars, endtime, inventory_select>>

\* inventory.plot(color_per_network=True); inventory.plot(projection='local',
\* ...); plt.show(): without a mapping backend the first call raises
\* ImportError (recorded output) and the cell stops there.
INV_plot ==
    /\ pc = "inv_plot"
    /\ \/ /\ calls' = calls \o
                <<Call("inventory.plot", <<>>, [color_per_network |-> TRUE]),
                  Call("inventory.plot", <<>>,
                       [projection |-> "local", color_per_network |-> TRUE])>>
          /\ pc' = "inv2_get_stations"
       \/ /\ calls' = Append(calls, Call("inventory.plot", <<>>,
                                         [color_per_network |-> TRUE]))
          /\ pc' = "aborted"
    /\ UNCHANGED <<starttime, duration, st, trace, trace_sensi, pre_filt,
                   trace_filter, heap, gapVars, invVars>>

\* The keyword arguments of the second get_stations call.
ChannelLevelKwargs ==
    [network |-> "OO", station |-> "AXAS1,AXAS2", channel |-> "*Z",
     starttime |-> starttime, endtime |-> endtime, level |-> "channel"]

\* inventory = client.get_stations(network='OO', station='AXAS1,AXAS2',
\* channel='*Z', starttime=starttime, endtime=endtime, level="channel")
INV2_get_stations ==
    /\ pc = "inv2_get_stations"
    /\ calls' = Append(calls, Call("get_stations", <<>>, ChannelLevelKwargs))
    /\ \/ \E catalog \in Catalogs :
            /\ inventory' = GetStations(catalog, {"OO"}, {"AXAS1", "AXAS2"},
                                        <<"*", "Z">>, ChannelLevelKwargs.level)
            /\ pc' = "inv_select"
       \/ /\ pc' = "aborted"
          /\ UNCHANGED inventory
    /\ UNCHANGED <<starttime, duration, st, trace, trace_sensi, pre_filt,
                   trace_filter, heap, gapVars, endtime, inventory_select>>

\* The statement without its station argument:
\* inventory_select = inventory.select(channel="*Z")
INV_select_any_station ==
    /\ pc = "inv_select"
    /\ inventory_select' =
          UNION { Select(inventory, <<"*", "Z">>, code) :
                    code \in AllStationCodes }
    /\ pc' = "inv3_get_stations"
    /\ UNCHANGED <<starttime, duration, st, trace, trace_sensi, pre_filt,
                   trace_filter, heap, calls, gapVars, endtime, inventory>>

\* inventory_select = inventory.select(channel="*Z", station="AXAS1")
INV_select ==
    /\ pc = "inv_select"
    /\ inventory_select' = Select(inventory, <<"*", "Z">>, "AXAS1")
    /\ pc' = "inv3_get_stations"
    /\ UNCHANGED <<starttime, duration, st, trace, trace_sensi, pre_filt,
                   trace_filter, heap, calls, gapVars, endtime, inventory>>

\* The keyword arguments of the get_stations call of the response plot.
ResponseLevelKwargs ==
    [network |-> "OO", station |-> "AXAS1", channel |-> "EHZ",
     starttime |-> starttime, endtime |-> endtime, level |-> "response"]

\* inventory = client.get_stations(network='OO', station='AXAS1',
\* channel='EHZ', starttime=starttime, endtime=endtime, level="response")
INV3_get_stations ==
    /\ pc = "inv3_get_stations"
    /\ calls' = Append(calls, Call("get_stations", <<>>, ResponseLevelKwargs))
    /\ \/ \E catalog \in Catalogs :
            /\ inventory' = GetStations(catalog, {"OO"}, {"AXAS1"},
                                        <<"E", "H", "Z">>,
                                        ResponseLevelKwargs.level)
            /\ pc' = "inv3_plot_response"
       \/ /\ pc' = "aborted"
          /\ UNCHANGED inventory
    /\ UNCHANGED <<starttime, duration, st, trace, trace_sensi, pre_filt,
                   trace_filter, heap, gapVars, endtime, inventory_select>>

\* inventory.plot_response(min_freq=0.001), the frequency in millihertz.
INV3_plot_response ==
    /\ pc = "inv3_plot_response"
    /\ calls' = Append(calls, Call("inventory.plot_response", <<>>,
                                   [min_freq |-> 1]))
    /\ pc' = "inv4_get_stations"
    /\ UNCHANGED <<starttime, duration, st, trace, trace_sensi, pre_filt,
                   trace_filter, heap, gapVars, invVars>>

\* The keyword arguments of the get_stations call of the inventory file.
AllChannelsKwargs ==
    [network |-> "OO", station |-> "AXAS1", channel |-> "*",
     starttime |-> starttime, endtime |-> endtime, level |-> "response"]

\* inventory = client.get_stations(network='OO', station='AXAS1',
\* channel='*', starttime=starttime, endtime=endtime, level="response")
INV4_get_stations ==
    /\ pc = "inv4_get_stations"
    /\ calls' = Append(calls, Call("get_stations", <<>>, AllChannelsKwargs))
    /\ \/ \E catalog \in Catalogs :
            /\ inventory' = GetStations(catalog, {"OO"}, {"AXAS1"}, <<"*">>,
                                        AllChannelsKwargs.level)
            /\ pc' = "inv4_write"
       \/ /\ pc' = "aborted"
          /\ UNCHANGED inventory
    /\ UNCHANGED <<starttime, duration, st, trace, trace_sensi, pre_filt,
                   trace_filter, heap, gapVars, endtime, inventory_select>>

\* inventory.write('station.xml', format='STATIONXML')
INV4_write ==
    /\ pc = "inv4_write"
    /\ calls' = Append(calls, Call("inventory.write", <<>>,
                                   [filename |-> "station.xml",
                                    format |-> "STATIONXML"]))
    /\ pc' = "inv_done"
    /\ UNCHANGED <<starttime, duration, st, trace, trace_sensi, pre_filt,
                   trace_filter, heap, gapVars, invVars>>

\* ------------------------------------------------------------ specification

Init ==
    /\ pc = "rr_params"
    /\ starttime = NoRef
    /\ duration = NoRef
    /\ st = Unbound
    /\ trace = NoRef
    /\ trace_sensi = NoRef
    /\ pre_filt = Unbound
    /\ trace_filter = NoRef
    /\ heap = <<>>
    /\ calls = <<>>
    /\ st_filled_gaps = Unbound
    /\ endtime = NoRef
    /\ inventory = Unbound
    /\ inventory_select = Unbound

Next ==
    \/ RR_params
    \/ RR_get_waveforms
    \/ RR_trace
    \/ RR_copy_sensi
    \/ RR_remove_sensitivity
    \/ RR_plots
    \/ RR_pre_filt
    \/ RR_remove_response
    \/ RR_copy_filter
    \/ RR_filter
    \/ RR_plot_filter
    \/ Save_get_waveforms
    \/ Save_write

Spec == Init /\ [][Next]_vars

\* The kernel on entry to the cell "Day plots".
InitGaps ==
    /\ pc = "dp_params"
    /\ starttime = NoRef
    /\ duration = NoRef
    /\ st = Unbound
    /\ trace = NoRef
    /\ trace_sensi = NoRef
    /\ pre_filt = Unbound
    /\ trace_filter = NoRef
    /\ heap = <<>>
    /\ calls = <<>>
    /\ st_filled_gaps = Unbound
    /\ endtime = NoRef
    /\ inventory = Unbound
    /\ inventory_select = Unbound

NextGaps ==
    \/ DP_params
    \/ DP_get_waveforms
    \/ DP_trace
    \/ DP_plot
    \/ HG_reset
    \/ HG_deepcopy
    \/ HG_sampling_rate
    \/ HG_merge
    \/ HG_trace
    \/ HG_plot

SpecGaps == InitGaps /\ [][NextGaps]_vars

\* The kernel on entry to the first metadata cell.
InitInv ==
    /\ pc = "inv_params"
    /\ starttime = NoRef
    /\ duration = NoRef
    /\ st = Unbound
    /\ trace = NoRef
    /\ trace_sensi = NoRef
    /\ pre_filt = Unbound
    /\ trace_filter = NoRef
    /\ heap = <<>>
    /\ calls = <<>>
    /\ st_filled_gaps = Unbound
    /\ endtime = NoRef
    /\ inventory = {}
    /\ inventory_select = {}

NextInv ==
    \/ INV_params
    \/ INV_get_stations
    \/ INV_plot
    \/ INV2_get_stations
    \/ INV_select
    \/ INV3_get_stations
    \/ INV3_plot_response
    \/ INV4_get_stations
    \/ INV4_write

SpecInv == InitInv /\ [][NextInv]_vars

\* ------------------------------------------------------------------ claims

\* The remove_response calls made so far.
RemoveResponseCalls ==
    { i \in 1..Len(calls) : calls[i].fn = "remove_response" }

\* C7: whenever trace.remove_response has run, the call carried the
\* four-corner pre-filter held by pre_filt ([0.5, 1, 50, 70]) as its taper,
\* next to the water level and the output unit.
C7_PreFiltInEffect ==
    \A i \in RemoveResponseCalls :
        /\ "pre_filt" \in DOMAIN calls[i].kwargs
        /\ calls[i].kwargs.pre_filt = PreFiltCorners
        /\ "water_level" \in DOMAIN calls[i].kwargs
        /\ "output" \in DOMAIN calls[i].kwargs

\* The calls of function fn made so far.
CallsOf(fn) == { i \in 1..Len(calls) : calls[i].fn = fn }

\* The objects a call was made on.
TargetsOf(i) == { calls[i].target[k] : k \in 1..Len(calls[i].target) }

\* C15: trace.remove_response mutates the Trace that st of the
\* response-removal cell holds (trace is st[0], not a copy), and the stream
\* handed to st.write('mytrace.mseed') comes from a get_waveforms call made
\* after every remove_response and filter call, with the same starttime and
\* endtime as the first query; no Trace handed to write has had a processing
\* method called on it.
C15_WriteIsFreshQuery ==
    /\ \A k \in CallsOf("remove_response") :
          /\ calls[k].target = <<trace>>
          /\ heap[trace].processing = <<"remove_response">>
          /\ pc \in {"rr_copy_filter", "rr_filter", "rr_plot_filter",
                     "save_get_waveforms"} => st[1] = trace
    /\ \A i \in CallsOf("write") :
          /\ \E j \in CallsOf("get_waveforms") :
                /\ j < i
                /\ \A k \in CallsOf("remove_response") \cup CallsOf("filter") :
                      k < j
                /\ \A f \in CallsOf("get_waveforms") :
                      calls[f].kwargs = calls[j].kwargs
          /\ \A r \in TargetsOf(i) : heap[r].processing = <<>>
          /\ trace \notin TargetsOf(i)
          /\ trace_filter \notin TargetsOf(i)

\* C15 witness: the file has been written in a run in which the trace of the
\* first stream had its response removed in place.
C15_Witness ==
    /\ pc = "done"
    /\ CallsOf("write") # {}
    /\ heap[trace].processing = <<"remove_response">>
    /\ heap[trace_filter].processing = <<"remove_response", "filter">>

\* The statements of the cell "Handling gaps".
GapCellPcs == {"hg_reset", "hg_deepcopy", "hg_sampling_rate", "hg_merge",
               "hg_trace", "hg_plot"}

\* C14: no statement of the cell "Handling gaps" (the deep copy, the
\* sampling-rate override, the in-place merge, the plot) changes the
\* retrieved stream st: st keeps its traces, and every trace of st keeps its
\* sample count, sampling rate and identity, so its gaps stay unmerged.
C14_GapCellLeavesStAlone ==
    [][(pc \in GapCellPcs) =>
          (st' = st /\ \A i \in 1..Len(st) : heap'[st[i]] = heap[st[i]])]_vars

\* C14 witness: the cell has run to its end, the override changed the rate
\* of the copy's first trace and the merge joined two traces of the copy,
\* while st still holds two traces and the first still has its own rate.
C14_Witness ==
    /\ pc = "hg_done"
    /\ Len(st) = 2
    /\ Len(st_filled_gaps) = 1
    /\ heap[st[1]].sampling_rate # MergeRate
    /\ heap[st_filled_gaps[1]].sampling_rate = MergeRate
    /\ heap[st_filled_gaps[1]].npts > heap[st[1]].npts

\* The detail level of the latest get_stations call: the level argument, or
\* station detail when the call has none.
LevelInEffect ==
    LET i == CHOOSE k \in CallsOf("get_stations") :
                 \A j \in CallsOf("get_stations") : j <= k
    IN  IF "level" \in DOMAIN calls[i].kwargs THEN calls[i].kwargs.level
        ELSE "station"

\* The Inventory selected for station AXAS1 and pattern '*Z': exactly one
\* station, one or more channels, all ending in Z, no response entry.
OneStationZChannelsNoResponse ==
    /\ Cardinality(inventory_select) = 1
    /\ \A s \in inventory_select :
          /\ s.network = "OO" /\ s.station = "AXAS1"
          /\ s.channels # {}
          /\ \A c \in s.channels :
                c.code[Len(c.code)] = "Z" /\ ~c.response

\* The selection has just been made, from a reply that lists station AXAS1.
SelectedFromReplyWithAXAS1 ==
    /\ pc = "inv3_get_stations"
    /\ \E s \in inventory : s.station = "AXAS1"

\* C13 as stated: the Inventory for network OO, station AXAS1 and pattern
\* '*Z' over the one-day window is queried at station-only detail and holds
\* exactly one station, one or more channels ending in Z and no response.
C13_StationOnlyDetail ==
    SelectedFromReplyWithAXAS1 =>
        LevelInEffect = "station" /\ OneStationZChannelsNoResponse

\* C13 as amended: queried at channel detail (level="channel") and then
\* selected for station AXAS1 and pattern '*Z', the Inventory holds exactly
\* one station, one or more channels, all ending in Z, and no response
\* entry, whenever the reply lists station AXAS1.
C13_ChannelDetail ==
    SelectedFromReplyWithAXAS1 =>
        LevelInEffect = "channel" /\ OneStationZChannelsNoResponse

\* C13 witness: the reply listed both stations asked for, AXAS1 with a
\* channel ending in Z, and the selection kept AXAS1 alone.
C13_Witness ==
    /\ pc = "inv3_get_stations"
    /\ Cardinality(inventory) = 2
    /\ Cardinality(inventory_select) = 1
    /\ \E s \in inventory_select : Cardinality(s.channels) = 2

====
